---- MODULE Spec2Model ----
(***************************************************************************)
(* State-machine model of the TF-DragoNN data-feeding core:                *)
(*   - the bcolz array store and its module-level cache                    *)
(*     (tfdragonn/tensorflow/bcolz_reader_op.py),                          *)
(*   - the balanced interval materializer of GenomeFlowInterface           *)
(*     (tfdragonn/genomeflow_interface.py),                                *)
(*   - the K-fold loop of train_tf_dragonn                                 *)
(*     (tfdragonn/gf_keras/tfdragonn_main.py).                             *)
(* Each subsystem has its own specification over the shared variables;     *)
(* the variables of the other subsystems stay at their idle values.        *)
(***************************************************************************)
EXTENDS Integers, Sequences, FiniteSets, TLC

VARIABLES
    disk,        \* array store: directory (component list) -> contents on disk
    data_cache,  \* array store: _data_cache, key (path string) -> loaded object
    nobj,        \* array store: number of mapping objects built so far
    cret,        \* array store: the last _load_directory call and its outcome
    thr,         \* array store: per-thread position inside _load_directory
    nloads,      \* array store: per key, the loads performed by threads
    dataset,     \* interface: self.dataset, dataset id -> intervals file
    intervals,   \* the intervals file of each dataset: its records
    tmp_files,   \* interface: self.tmp_files
    created,     \* the files of the log directory this interface created
    files,       \* log directory: side file name -> its state on disk
    mcall,       \* interface: the running (or last) queue construction
    kf,          \* train_tf_dragonn: its datasets, queues and position
    ext,         \* reader op: the last extractor_func call and its outcome
    eq,          \* examples_queue: the last call and its outcome
    xq           \* get_example_queue: the call's arguments and its outcome

cacheVars == <<disk, data_cache, nobj, cret, thr, nloads>>

ifaceVars == <<tmp_files, created>>

matVars == <<dataset, intervals, files, mcall, tmp_files, created>>

tfVars == <<ext, eq, xq>>

vars ==
    <<disk, data_cache, nobj, cret, thr, nloads, dataset, intervals, files, mcall,
      tmp_files, created, kf, ext, eq, xq>>

----------------------------------------------------------------------------
(* Bounds *)

MaxPathLen == 4     \* longest path string handed to _load_directory
MaxObjs == 3        \* mapping objects built in one run

----------------------------------------------------------------------------
(* Path strings and the file system                                        *)

Sep == "/"

PathAlphabet == {Sep, "d"}

PathStrings == UNION {[1..n -> PathAlphabet] : n \in 1..MaxPathLen}

\* re.sub('//+', '/', base_dir): every run of separators becomes one
RECURSIVE CollapseSep(_)
CollapseSep(p) ==
    IF Len(p) < 2 THEN p
    ELSE IF p[1] = Sep /\ p[2] = Sep THEN CollapseSep(Tail(p))
    ELSE <<p[1]>> \o CollapseSep(Tail(p))

\* str.rstrip(os.sep)
RECURSIVE RStripSep(_)
RStripSep(p) ==
    IF p # <<>> /\ p[Len(p)] = Sep THEN RStripSep(SubSeq(p, 1, Len(p) - 1))
    ELSE p

NoRStrip(p) == CollapseSep(p)

\* the cache key of lines 140-143
base_dir_key(p) == RStripSep(CollapseSep(p))

\* the components of a path, empty ones dropped (POSIX resolution)
RECURSIVE Components(_)
Components(p) ==
    IF p = <<>> THEN <<>>
    ELSE IF p[1] = Sep THEN Components(Tail(p))
    ELSE LET rest == Components(Tail(p))
         IN  IF Len(p) >= 2 /\ p[2] # Sep
             THEN <<(<<p[1]>> \o Head(rest))>> \o Tail(rest)
             ELSE <<(<<p[1]>>)>> \o rest

IsAbs(p) == p # <<>> /\ p[1] = Sep

\* the working directory of the process: /d
Cwd == << <<"d">> >>

\* the directory a path string denotes
Resolve(p) == IF IsAbs(p) THEN Components(p) ELSE Cwd \o Components(p)

\* the directories of the file system: /, /d and /d/d
DirRoot == <<>>
DirD == << <<"d">> >>
DirDD == << <<"d">>, <<"d">> >>

Dirs == {DirRoot, DirD, DirDD}

\* os.path.isdir(base_dir)
isdir(p) == p # <<>> /\ Resolve(p) \in Dirs

----------------------------------------------------------------------------
(* The array store: directories on disk                                    *)

ArrChroms == {"chr1", "chr2"}

Shapes == {<<999, 4>>, <<1000, 4>>}

\* the shape of an array that is not on disk
Missing == <<>>

NoManifest == [type |-> "none"]

\* an array directory: the manifest's file_shapes and the stored arrays
ArrayDirs ==
    [type : {"array_bcolz"},
     file_shapes : {[c \in ArrChroms |-> <<1000, 4>>]},
     arrays : [ArrChroms -> Shapes \cup {Missing}]]

\* a v-plot directory: one stored array per chromosome sub-directory
VplotDir ==
    [type |-> "vplot_bcolz",
     file_shapes |-> [c \in ArrChroms |-> <<1000, 4>>],
     arrays |-> [c \in ArrChroms |-> <<4, 1000>>]]

OtherDir ==
    [type |-> "bigwig",
     file_shapes |-> [c \in ArrChroms |-> <<1000, 4>>],
     arrays |-> [c \in ArrChroms |-> <<1000, 4>>]]

GoodArrayDir ==
    [type |-> "array_bcolz",
     file_shapes |-> [c \in ArrChroms |-> <<1000, 4>>],
     arrays |-> [c \in ArrChroms |-> <<1000, 4>>]]

DirContents == ArrayDirs \cup {VplotDir, OtherDir, NoManifest}

\* what the disks of a run may hold: / carries no manifest, /d is a sound array directory
Disks ==
    {f \in [Dirs -> DirContents] :
        /\ f[DirRoot] = NoManifest
        /\ f[DirD] = GoodArrayDir}

NoShapeCheck(c) == TRUE

\* lines 155-159: every stored shape equals the declared one
ShapesConsistent(c) == \A ch \in ArrChroms : c.arrays[ch] = c.file_shapes[ch]

\* the directory has a chromosome whose stored array differs from the manifest
HasShapeMismatch(c) ==
    /\ c.type = "array_bcolz"
    /\ \E ch \in ArrChroms : c.arrays[ch] # Missing /\ c.arrays[ch] # c.file_shapes[ch]

\* lines 148-169: read the manifest, open and validate the arrays.
\* The error of the load, or "none" when a mapping is built.
OpenError(c, in_memory) ==
    IF c.type = "none" THEN "NoManifest"
    ELSE IF c.type = "array_bcolz"
    THEN IF \E ch \in ArrChroms : c.arrays[ch] = Missing THEN "OpenFailed"
         ELSE IF ~ShapesConsistent(c) THEN "ShapeMismatch"
         ELSE "none"
    ELSE IF c.type = "vplot_bcolz"
    THEN IF in_memory THEN "VplotInMemory" ELSE "none"
    ELSE "UnsupportedType"

NoObj == [id |-> 0]

\* the mapping built by a load: identified by the order of its construction
NewObj(n, dir, in_memory) == [id |-> n + 1, dir |-> dir, in_memory |-> in_memory]

\* no directory / no key: the call failed before it determined one
NoDir == << <<>> >>
NoKey == <<"none">>

NoCall ==
    [use_cache |-> FALSE, in_memory |-> FALSE, key |-> NoKey, dir |-> NoDir,
     changed |-> FALSE, err |-> "nocall", obj |-> NoObj, opened |-> FALSE]

\* the outcome of a call: its flags, the key it computed (with use_cache) and
\* whether that key differs from the base_dir given, the directory it addressed,
\* the error raised or the object returned, and whether it read the manifest
\* and opened the arrays
CallResult(in_memory, use_cache, path, key, dir, err, obj, opened) ==
    [use_cache |-> use_cache, in_memory |-> in_memory, key |-> key, dir |-> dir,
     changed |-> (key # NoKey /\ key # path),
     err |-> err, obj |-> obj, opened |-> opened]

ReplaceCache(cache, key, obj) == [k \in {key} |-> obj]

\* line 173: _data_cache[base_dir_key] = data
CacheStore(cache, key, obj) ==
    [k \in DOMAIN cache \cup {key} |-> IF k = key THEN obj ELSE cache[k]]

NeverHit(cache, key, use_cache) == FALSE

\* lines 137-146: the cache is consulted only with use_cache
CacheHit(cache, key, use_cache) == use_cache /\ key \in DOMAIN cache

\* _load_directory(base_dir, in_memory, use_cache), called from one thread
LoadDirectory(path, in_memory, use_cache) ==
    LET key == IF use_cache THEN base_dir_key(path) ELSE NoKey
        dir == Resolve(path)
    IN  IF ~isdir(path)
        THEN /\ cret' = CallResult(in_memory, use_cache, path, NoKey, NoDir, "NotADirectory", NoObj, FALSE)
             /\ UNCHANGED <<data_cache, nobj>>
        ELSE IF CacheHit(data_cache, key, use_cache)
        THEN /\ cret' = CallResult(in_memory, use_cache, path, key, dir, "none", data_cache[key], FALSE)
             /\ UNCHANGED <<data_cache, nobj>>
        ELSE LET err == OpenError(disk[dir], in_memory)
                 obj == NewObj(nobj, dir, in_memory)
             IN  IF err # "none"
                 THEN /\ cret' = CallResult(in_memory, use_cache, path, key, dir, err, NoObj, TRUE)
                      /\ UNCHANGED <<data_cache, nobj>>
                 ELSE /\ nobj < MaxObjs
                      /\ nobj' = nobj + 1
                      /\ cret' = CallResult(in_memory, use_cache, path, key, dir, "none", obj, TRUE)
                      /\ data_cache' = IF use_cache
                                       THEN CacheStore(data_cache, key, obj)
                                       ELSE data_cache

Load ==
    /\ \E path \in PathStrings, in_memory \in BOOLEAN, use_cache \in BOOLEAN :
          LoadDirectory(path, in_memory, use_cache)
    /\ UNCHANGED <<disk, thr, nloads, matVars, kf, tfVars>>

EmptyCache == [k \in {} |-> NoObj]

Threads == {"t1", "t2"}

ThreadIdle ==
    [pc |-> "idle", key |-> NoKey, dir |-> NoDir, in_memory |-> FALSE,
     obj |-> NoObj, err |-> "none"]

----------------------------------------------------------------------------
(* The array store used from several threads with use_cache=True: the       *)
(* steps of _load_directory interleave; nothing in it takes a lock.         *)

\* lines 133-146: the directory test, the key and the cache lookup
T_Call(t) ==
    /\ thr[t].pc = "idle"
    /\ \E path \in PathStrings, in_memory \in BOOLEAN :
          LET key == base_dir_key(path)
              dir == Resolve(path)
          IN  thr' = [thr EXCEPT ![t] =
                  IF ~isdir(path)
                  THEN [ThreadIdle EXCEPT !.pc = "done", !.err = "NotADirectory"]
                  ELSE IF CacheHit(data_cache, key, TRUE)
                  THEN [pc |-> "done", key |-> key, dir |-> dir, in_memory |-> in_memory,
                        obj |-> data_cache[key], err |-> "none"]
                  ELSE [pc |-> "loading", key |-> key, dir |-> dir, in_memory |-> in_memory,
                        obj |-> NoObj, err |-> "none"]]
    /\ UNCHANGED <<disk, data_cache, nobj, cret, nloads, matVars, kf, tfVars>>

\* lines 148-169: the manifest is read, the arrays are opened and validated
T_Load(t) ==
    /\ thr[t].pc = "loading"
    /\ LET err == OpenError(disk[thr[t].dir], thr[t].in_memory)
           key == thr[t].key
       IN  IF err # "none"
           THEN /\ thr' = [thr EXCEPT ![t].pc = "done", ![t].err = err]
                /\ UNCHANGED <<nobj, nloads>>
           ELSE /\ nobj < MaxObjs
                /\ nobj' = nobj + 1
                /\ nloads' = [k \in DOMAIN nloads \cup {key} |->
                                 IF k = key
                                 THEN (IF k \in DOMAIN nloads THEN nloads[k] ELSE 0) + 1
                                 ELSE nloads[k]]
                /\ thr' = [thr EXCEPT ![t].pc = "store",
                                      ![t].obj = NewObj(nobj, thr[t].dir, thr[t].in_memory)]
    /\ UNCHANGED <<disk, data_cache, cret, matVars, kf, tfVars>>

\* lines 172-175: the entry is stored and the mapping returned
T_Store(t) ==
    /\ thr[t].pc = "store"
    /\ data_cache' = CacheStore(data_cache, thr[t].key, thr[t].obj)
    /\ thr' = [thr EXCEPT ![t].pc = "done"]
    /\ UNCHANGED <<disk, nobj, cret, nloads, matVars, kf, tfVars>>

\* the caller takes the result; the thread may call again
T_Return(t) ==
    /\ thr[t].pc = "done"
    /\ thr' = [thr EXCEPT ![t] = ThreadIdle]
    /\ UNCHANGED <<disk, data_cache, nobj, cret, nloads, matVars, kf, tfVars>>

ThreadsNext ==
    \E t \in Threads : T_Call(t) \/ T_Load(t) \/ T_Store(t) \/ T_Return(t)

----------------------------------------------------------------------------
(* The reader op: extractor_func of _get_bcolz_reader_fn                    *)

MaxBatch == 3       \* intervals in one batch handed to the reader op

\* line 76: the mapping the reader is built on. The first dimension varies by
\* chromosome (line 81): chr1 has two rows, chr2 one; row j of c is <<c, j>>.
data ==
    [c \in ArrChroms |->
        [j \in 1..(IF c = "chr1" THEN 2 ELSE 1) |-> <<c, j - 1>>]]

\* lines 78-79: data[chrom][start:end, ...], a slice that stops at the end of
\* the array
accessor_func(chrom, start, end) ==
    SubSeq(data[chrom], start + 1,
           IF end < Len(data[chrom]) THEN end ELSE Len(data[chrom]))

Coords == 0..2

BatchIntervals == [chrom : ArrChroms, start : Coords, end : Coords]

Batches == UNION {[1..n -> BatchIntervals] : n \in 0..MaxBatch}

\* lines 32-41: the intervals come as one bed3 string tensor or as separate
\* chrom, start and end tensors
Forms == {"bed3", "separate"}

\* lines 61-63: py_func is given the list of tensors as its one input, so the
\* array extractor_func receives has one row per tensor of the list
n_tensors(form) == IF form = "bed3" THEN 1 ELSE 3

\* line 108: lens = ends - starts
Lens(batch) == [i \in 1..Len(batch) |-> batch[i].end - batch[i].start]

\* lines 109-110: target_len = lens[0]; np.all(target_len == lens[0])
lengths_ok(lens) == LET target_len == lens[1] IN target_len = lens[1]

\* a row of np.empty (line 114) that was never assigned
Uninit == << <<"uninitialised", 0>> >>

\* line 116: the assignment output[i, ...] = rows needs rows of the target
\* length, or a single row, which numpy repeats over the target length
Assignable(rows, target_len) == Len(rows) = target_len \/ Len(rows) = 1

Broadcast(rows, target_len) ==
    IF Len(rows) = target_len THEN rows ELSE [j \in 1..target_len |-> rows[1]]

\* lines 115-116: the loop over the intervals, from interval i on
RECURSIVE FillOutput(_, _, _, _)
FillOutput(output, batch, i, target_len) ==
    IF i > Len(batch) THEN [err |-> "none", output |-> output]
    ELSE IF i > Len(output) THEN [err |-> "IndexError", output |-> <<>>]
    ELSE LET rows == accessor_func(batch[i].chrom, batch[i].start, batch[i].end)
         IN  IF ~Assignable(rows, target_len)
             THEN [err |-> "ValueError", output |-> <<>>]
             ELSE FillOutput([output EXCEPT ![i] = Broadcast(rows, target_len)],
                             batch, i + 1, target_len)

\* lines 84-118: extractor_func on the array made of the tensors of the batch
extractor_func(form, batch) ==
    LET n_entries == n_tensors(form)
    IN  IF form = "bed3"
        \* lines 92-97: tolist() of the one-row array is a list holding one
        \* list, which has no strip()
        THEN [err |-> "AttributeError", output |-> <<>>]
        \* line 109: lens[0] of an empty batch
        ELSE IF batch = <<>> THEN [err |-> "IndexError", output |-> <<>>]
        ELSE IF ~lengths_ok(Lens(batch))
        THEN [err |-> "InconsistentLengths", output |-> <<>>]
        \* line 114: np.empty of a negative dimension
        ELSE IF Lens(batch)[1] < 0 THEN [err |-> "ValueError", output |-> <<>>]
        ELSE FillOutput([i \in 1..n_entries |-> Uninit], batch, 1, Lens(batch)[1])

NoExtract ==
    [called |-> FALSE, form |-> "bed3", batch |-> <<>>, err |-> "none", output |-> <<>>]

\* a batch waits for the reader op
PendingExtract(form, batch) == [NoExtract EXCEPT !.form = form, !.batch = batch]

\* the reader op runs on the batch
Extract ==
    /\ ~ext.called
    /\ LET res == extractor_func(ext.form, ext.batch)
       IN  ext' = [ext EXCEPT !.called = TRUE, !.err = res.err, !.output = res.output]
    /\ UNCHANGED <<cacheVars, matVars, kf, eq, xq>>

----------------------------------------------------------------------------
(* examples_queue.py: the examples queue and its queue runner              *)

\* line 13
_DEFAULT_BUFFER_CAPACITY == 10000

\* the keys the three dicts may have, in the order the dicts are iterated
IntervalKeys == <<"bed3", "chrom", "start", "stop">>
DataKeys == <<"dnase", "seq">>
LabelKeys == <<"task1", "task2">>

KeySets(keys) == SUBSET {keys[i] : i \in 1..Len(keys)}

\* dict.items(): the keys of the dict in order, each with its tensor
items(keys, present) == LET In(k) == k \in present IN SelectSeq(keys, In)

\* line 29: the name OrderedDict is the class, not a mapping made from it
OrderedDictClass == [type |-> "class", keys |-> <<>>, values |-> <<>>]

\* lines 33, 37: 'intervals/{}'.format(k); line 41: 'labels/'.format(k)
format(template, k) == IF template = "labels/" THEN <<template, "">> ELSE <<template, k>>

Index(t, name) == {i \in 1..Len(t.keys) : t.keys[i] = name}

\* d[name] = v on an OrderedDict: a new key goes to the end, an old key keeps
\* its place and takes the new value
SetItem(t, name, v) ==
    IF Index(t, name) = {}
    THEN [t EXCEPT !.keys = Append(@, name), !.values = Append(@, v)]
    ELSE [t EXCEPT !.values = [i \in 1..Len(@) |-> IF i \in Index(t, name) THEN v ELSE @[i]]]

\* one of the loops of lines 31-41 from the keys on: the membership test and
\* the item assignment need a mapping, and raise TypeError on a class
RECURSIVE AddItems(_, _, _, _)
AddItems(t, template, source, ks) ==
    IF ks = <<>> THEN [err |-> "none", t |-> t]
    ELSE IF t.type = "class" THEN [err |-> "TypeError", t |-> t]
    ELSE IF Index(t, Head(ks)) # {} THEN [err |-> "AssertionError", t |-> t]
    ELSE AddItems(SetItem(t, format(template, Head(ks)), <<source, Head(ks)>>),
                  template, source, Tail(ks))

NoQueue == [built |-> FALSE, capacity |-> 0, names |-> <<>>, tensors |-> <<>>]
NoRunner == [registered |-> FALSE, close_op |-> "none", cancel_op |-> "none"]

\* lines 29-56: examples_queue(intervals, data, labels)
examples_queue(intervals_dict, data_dict, labels_dict) ==
    LET tensors_to_enqueue == OrderedDictClass
        a == AddItems(tensors_to_enqueue, "intervals/", "intervals", items(IntervalKeys, intervals_dict))
        b == AddItems(a.t, "data/", "data", items(DataKeys, data_dict))
        c == AddItems(b.t, "labels/", "labels", items(LabelKeys, labels_dict))
        raised(e) == [err |-> e, queue |-> NoQueue, queue_runner |-> NoRunner]
    IN  IF a.err # "none" THEN raised(a.err)
        ELSE IF b.err # "none" THEN raised(b.err)
        ELSE IF c.err # "none" THEN raised(c.err)
        ELSE IF c.t.type = "class" THEN raised("TypeError")
        ELSE [err |-> "none",
              queue |-> [built |-> TRUE, capacity |-> _DEFAULT_BUFFER_CAPACITY,
                         names |-> c.t.keys, tensors |-> c.t.values],
              queue_runner |-> [registered |-> TRUE, close_op |-> "close",
                                cancel_op |-> "close(cancel_pending_enqueues=True)"]]

\* no call of examples_queue has been made
NoQueueCall ==
    [called |-> FALSE, intervals |-> {}, data |-> {}, labels |-> {}, err |-> "none",
     queue |-> NoQueue, queue_runner |-> NoRunner]

PendingQueueCall(intervals_dict, data_dict, labels_dict) ==
    [NoQueueCall EXCEPT !.intervals = intervals_dict, !.data = data_dict,
                        !.labels = labels_dict]

\* examples_queue is called on the three dicts
ExamplesQueue ==
    /\ ~eq.called
    /\ LET res == examples_queue(eq.intervals, eq.data, eq.labels)
       IN  eq' = [eq EXCEPT !.called = TRUE, !.err = res.err, !.queue = res.queue,
                            !.queue_runner = res.queue_runner]
    /\ UNCHANGED <<cacheVars, matVars, kf, ext, xq>>

----------------------------------------------------------------------------
(* get_example_queue: the data sources of a dataset                        *)

\* lines 16-28: the extractor of each data type (the seven bcolz data types
\* are represented by two of them)
data_type2extractor ==
    [k \in {"genome_data_dir", "dnase_data_dir",
            "tss_counts", "dhs_counts", "tss_mean_tpm", "tss_max_tpm"} |->
        IF k \in {"genome_data_dir", "dnase_data_dir"} THEN "bcolz_array" ELSE "bed"]

\* models.py lines 83-112: the inputs of a model class, each a string
\* 'data/<data type>' given by its parts around the separator
model_inputs ==
    [SequenceClassifier |-> << <<"data", "/", "genome_data_dir">> >>,
     SequenceAndDnaseClassifier |->
        << <<"data", "/", "genome_data_dir">>, <<"data", "/", "dnase_data_dir">> >>,
     SequenceDnaseTssDhsCountAndTssExpressionClassifier |->
        << <<"data", "/", "genome_data_dir">>, <<"data", "/", "dnase_data_dir">>,
           <<"data", "/", "dhs_counts">>, <<"data", "/", "tss_counts">>,
           <<"data", "/", "tss_mean_tpm">>, <<"data", "/", "tss_max_tpm">> >>]

\* lines 58-60 and models.py lines 114-117: the input names of the interface,
\* element 1 of each model input split at '/'
input_names(model_class) ==
    LET NotSep(part) == part # "/"
        split(name) == SelectSeq(name, NotSep)
        model_inputs_from_config == model_inputs[model_class]
    IN  [i \in 1..Len(model_inputs_from_config) |-> split(model_inputs_from_config[i])[2]]

\* lines 298-310: the data source of an input. data_specs is the path of
\* bcolz data, or the filepath and options of bed data.
get_data_source(data_type, data_specs) ==
    LET extractor_type == data_type2extractor[data_type]
        data_type2options ==
            [k \in {"tss_counts", "dhs_counts", "tss_mean_tpm", "tss_max_tpm"} |->
                IF k \in {"tss_counts", "dhs_counts"} THEN [op |-> "count"]
                ELSE [op |-> IF k = "tss_mean_tpm" THEN "mean" ELSE "max",
                      norm_params |-> "asinh_zscore"]]
        update(options, other) ==
            [o \in DOMAIN options \cup DOMAIN other |->
                IF o \in DOMAIN other THEN other[o] ELSE options[o]]
    IN  IF extractor_type = "bed"
        THEN [data_path |-> data_specs.filepath, extractor_type |-> extractor_type,
              options |-> update(data_type2options[data_type], data_specs.options)]
        ELSE [data_path |-> data_specs, extractor_type |-> extractor_type,
              options |-> <<>>]

\* get_example_queue handing every input of the dataset to the example queue
AllInputsExampleQueue(inputs, names, interval_queue_err) ==
    IF interval_queue_err # "none"
    THEN [err |-> interval_queue_err, built |-> FALSE, data_sources |-> <<>>]
    ELSE IF names.given /\ \E i \in 1..Len(names.names) : names.names[i] \notin DOMAIN inputs
    THEN [err |-> "AssertionError", built |-> FALSE, data_sources |-> <<>>]
    ELSE [err |-> "none", built |-> TRUE,
          data_sources |-> [k \in DOMAIN inputs |-> get_data_source(k, inputs[k])]]

\* lines 267-288: the interval queue is built first (an error of its
\* construction ends the call), then the input names are asserted to be
\* inputs of the dataset, the data sources are made and the example queue is
\* built on them
get_example_queue(inputs, names, interval_queue_err) ==
    IF interval_queue_err # "none"
    THEN [err |-> interval_queue_err, built |-> FALSE, data_sources |-> <<>>]
    ELSE IF names.given /\ \E i \in 1..Len(names.names) : names.names[i] \notin DOMAIN inputs
    THEN [err |-> "AssertionError", built |-> FALSE, data_sources |-> <<>>]
    ELSE LET used == IF names.given
                     THEN {k \in DOMAIN inputs :
                              \E i \in 1..Len(names.names) : names.names[i] = k}
                     ELSE DOMAIN inputs
         IN  [err |-> "none", built |-> TRUE,
              data_sources |-> [k \in used |-> get_data_source(k, inputs[k])]]

\* no call of get_example_queue has been made
NoExampleQueueCall ==
    [called |-> FALSE, inputs |-> <<>>, input_names |-> [given |-> FALSE, names |-> <<>>],
     interval_queue_err |-> "none", err |-> "none", built |-> FALSE, data_sources |-> <<>>]

\* get_example_queue is called
GetExampleQueue ==
    /\ ~xq.called
    /\ LET res == get_example_queue(xq.inputs, xq.input_names, xq.interval_queue_err)
       IN  xq' = [xq EXCEPT !.called = TRUE, !.err = res.err, !.built = res.built,
                            !.data_sources = res.data_sources]
    /\ UNCHANGED <<cacheVars, matVars, kf, ext, eq>>

----------------------------------------------------------------------------
(* Intervals, interval files and the interval source                       *)

Chroms == {"chr1", "chr2"}

\* interval files are sorted by chromosome
ChromOrder == <<"chr1", "chr2">>

\* single-task label vectors: positive, negative, ambiguous
LabelVectors == {<<1>>, <<0>>, <<-1>>}

\* label vectors of two tasks
TwoTaskVectors == {<<1, 0>>, <<0, 1>>, <<-1, 1>>}

\* the labels of a record of an intervals file without label columns
NoLabels == <<>>

Interval(c, l) == [chrom |-> c, start |-> 0, end |-> 1000, labels |-> l]

\* the records of an intervals file that has one interval on each chromosome
Records(lab) == [i \in 1..Len(ChromOrder) |-> Interval(ChromOrder[i], lab[ChromOrder[i]])]

\* the records on the chromosomes S, in file order
OnChroms(records, S) == LET On(r) == r.chrom \in S IN SelectSeq(records, On)

\* the contents a labelled intervals file may have: on each chromosome one
\* interval or none
LabelledFiles ==
    {OnChroms(Records(lab), S) : lab \in [Chroms -> LabelVectors], S \in SUBSET Chroms}

\* an optional chromosome list: None, or the chromosomes given
None == [given |-> FALSE, chroms |-> {}]
Given(S) == [given |-> TRUE, chroms |-> S]
ChromLists == {None} \cup {Given(S) : S \in SUBSET Chroms}

\* sampling_fn=None
NoSampling == [labels \in {} |-> TRUE]

\* the entries a stream delivers from the records on, and the error that ends
\* it: "none" is the end of the epoch. A sampling function that reads the
\* labels raises on a record without labels.
RECURSIVE ReadEntries(_, _)
ReadEntries(records, sampling_fn) ==
    IF records = <<>> THEN [entries |-> <<>>, err |-> "none"]
    ELSE LET r == Head(records)
         IN  IF sampling_fn = NoSampling
             THEN LET rest == ReadEntries(Tail(records), sampling_fn)
                  IN  [entries |-> <<r>> \o rest.entries, err |-> rest.err]
             ELSE IF r.labels \notin DOMAIN sampling_fn
             THEN [entries |-> <<>>, err |-> "IndexError"]
             ELSE LET rest == ReadEntries(Tail(records), sampling_fn)
                  IN  [entries |-> (IF sampling_fn[r.labels] THEN <<r>> ELSE <<>>)
                                       \o rest.entries,
                       err |-> rest.err]

\* BedFileStream(intervals_file, selected_chroms, holdout_chroms, num_epochs=1,
\* sampling_fn): the records of one pass, filtered by chromosome membership
\* and then by the sampling predicate
BedFileStream(content, selected, holdout, sampling_fn) ==
    LET Keep(r) == /\ (selected.given => r.chrom \in selected.chroms)
                   /\ (holdout.given => r.chrom \notin holdout.chroms)
    IN  ReadEntries(SelectSeq(content, Keep), sampling_fn)

\* lines 118-123: the first task's label of the record
LastTaskPositive == [labels \in LabelVectors \cup TwoTaskVectors |-> labels[Len(labels)] = 1]

pos_sampling_fn == [labels \in LabelVectors \cup TwoTaskVectors |-> labels[1] = 1]
neg_sampling_fn == [labels \in LabelVectors \cup TwoTaskVectors |-> labels[1] = 0]

PosStreamNoHoldout(content, selected, holdout) ==
    BedFileStream(content, selected, None, pos_sampling_fn)

\* lines 124-129
pos_only_stream(content, selected, holdout) ==
    BedFileStream(content, selected, holdout, pos_sampling_fn)

\* lines 130-135
neg_only_stream(content, selected, holdout) ==
    BedFileStream(content, selected, holdout, neg_sampling_fn)

----------------------------------------------------------------------------
(* Side files and balanced materialization                                 *)

DatasetIds == {"A", "B"}

Basenames == {"x.bed", "y.bed"}

\* the datasets of a run: two datasets, whose intervals files lie in different
\* directories and may or may not have the same base name
DatasetSpecs == {d \in [DatasetIds -> Basenames] : d["A"] = "x.bed"}

\* lines 136-139: os.path.join(logdir, basename(intervals_file) + 'pos' / 'neg')
dest_file(base, polarity) == <<base, <<polarity>>>>

SideFiles == {dest_file(b, pol) : b \in Basenames, pol \in {"pos", "neg"}}

\* the copies of intervals files one interface makes in its life
MaxCopies == 1

\* line 218: the digits np.random.randint draws (one of the ten)
Digits == {"0"}

\* lines 215-218: os.path.join(logdir, basename(intervals_file)) followed by
\* the digits appended while a file of that name exists
TmpNames ==
    {<<b, s>> : b \in Basenames, s \in UNION {[1..n -> Digits] : n \in 0..MaxCopies}}

LogFiles == SideFiles \cup TmpNames

\* the names the loop of lines 217-218 can end with: the name is free and
\* every shorter name it went through is taken
FreshNames(base, fs) ==
    {f \in TmpNames :
        /\ f[1] = base
        /\ ~fs[f].exists
        /\ \A n \in 0..(Len(f[2]) - 1) : fs[<<base, SubSeq(f[2], 1, n)>>].exists}

\* a file of the log directory: whether it exists, its lines, and whether a
\* writer holds it open
Absent == [exists |-> FALSE, lines |-> <<>>, writer |-> FALSE]

AlwaysWrite(f) == TRUE

\* lines 148, 179: not os.path.isfile(f) or os.path.getsize(f) == 0
NeedsWrite(f) == ~f.exists \/ f.lines = <<>>

\* lines 149, 180, 222: open(dest_file, 'w') creates or truncates the file
OpenForWriting(f) == [exists |-> TRUE, lines |-> <<>>, writer |-> TRUE]

LeftOpen(f, lines) == [f EXCEPT !.lines = lines]

\* the with block is left, normally or by an exception: the lines written are
\* in the file and the writer is closed
Closed(f, lines) == [f EXCEPT !.lines = lines, !.writer = FALSE]

\* lines 159-163: the line written for an entry
Line(entry) == entry

WrittenIfLabelled(polarity, entry) ==
    IF entry.labels # NoLabels THEN <<Line(entry)>> ELSE <<>>

\* lines 165, 194, 233: what the loop body writes for an entry. The write of
\* the negative file stands inside the test 'labels' in entry (lines 191-194).
Written(polarity, entry) ==
    IF polarity # "neg" \/ entry.labels # NoLabels THEN <<Line(entry)>> ELSE <<>>

\* the loop of lines 151-165 / 182-194 / 223-233 from the entries on: the
\* lines written before the loop ended, and the error that ended it ("none":
\* the stream's end). The holdout test is made in the balanced loops; the
\* loop body writes what Written gives.
RECURSIVE DrainEntries(_, _, _, _)
DrainEntries(entries, last, holdout, polarity) ==
    IF entries = <<>> THEN [lines |-> <<>>, err |-> last]
    ELSE LET entry == Head(entries)
         IN  IF polarity # "all" /\ ~holdout.given
             THEN [lines |-> <<>>, err |-> "TypeError"]
             ELSE IF polarity # "all" /\ entry.chrom \in holdout.chroms
             THEN [lines |-> <<>>, err |-> "HoldoutValueError"]
             ELSE LET rest == DrainEntries(Tail(entries), last, holdout, polarity)
                  IN  [lines |-> Written(polarity, entry) \o rest.lines,
                       err |-> rest.err]

DrainEndsOnAnyError(stream, holdout, polarity) ==
    [lines |-> DrainEntries(stream.entries, "none", holdout, polarity).lines,
     err |-> "none"]

\* a drain loop run on a stream
Drain(stream, holdout, polarity) ==
    DrainEntries(stream.entries, stream.err, holdout, polarity)

\* lines 80-84: validation_chroms and holdout_chroms, each used when not None
skip_chroms(validation_chroms, holdout_chroms) ==
    Given((IF validation_chroms.given THEN validation_chroms.chroms ELSE {})
          \cup (IF holdout_chroms.given THEN holdout_chroms.chroms ELSE {}))

NoStream == [entries |-> <<>>, err |-> "none"]

\* no construction running: the locals of get_interval_queue do not exist
MIdle ==
    [op |-> "none", pc |-> "idle", dataset_id |-> "A", selected |-> None,
     holdout |-> None, pos_only_stream |-> NoStream, neg_only_stream |-> NoStream,
     source_stream |-> NoStream, dest_file |-> <<"x.bed", <<>>>>,
     heldout |-> FALSE, wrote |-> {}, qfiles |-> {}, todo |-> {}, err |-> "none"]

\* the locals of get_interval_queue go when it returns or raises; the holdout
\* chromosomes of a returned balanced construction and the files of the
\* returned queues are kept for the properties
Leave(m, pc, err) ==
    [m EXCEPT !.pc = pc, !.err = err, !.dataset_id = "A", !.selected = None,
              !.holdout = IF pc = "returned" /\ m.op # "copy" THEN @ ELSE None,
              !.qfiles = IF pc = "returned" THEN @ ELSE {},
              !.pos_only_stream = NoStream, !.neg_only_stream = NoStream,
              !.source_stream = NoStream, !.dest_file = <<"x.bed", <<>>>>,
              !.heldout = FALSE, !.wrote = {}, !.todo = {}]

AtRest == mcall.pc \in {"idle", "returned", "raised"}

\* lines 116-139: the two streams are built on the intervals file
WithStreams(m) ==
    LET content == intervals[m.dataset_id]
    IN  [m EXCEPT
           !.pc = "pos",
           !.selected = None,
           !.wrote = {},
           !.pos_only_stream = pos_only_stream(content, m.selected, m.holdout),
           !.neg_only_stream = neg_only_stream(content, m.selected, m.holdout),
           !.heldout = \E i \in 1..Len(content) :
                           /\ content[i].labels \in {<<0>>, <<1>>}
                           /\ m.holdout.given
                           /\ content[i].chrom \in m.holdout.chroms
                           /\ (m.selected.given => content[i].chrom \in m.selected.chroms)]

\* get_interval_queue(dataset, dataset_id, selected_chroms, holdout_chroms,
\* pos_sampling_rate=rate) is called on an interface of the log directory and
\* builds its streams
GetIntervalQueue ==
    /\ AtRest
    /\ \E d \in DatasetIds, sel \in ChromLists, h \in ChromLists :
          mcall' = WithStreams([MIdle EXCEPT !.op = "interval", !.dataset_id = d,
                                             !.selected = sel, !.holdout = h])
    /\ UNCHANGED <<dataset, intervals, files, ifaceVars, cacheVars, kf, tfVars>>

\* lines 79-89 and 246-261: get_train_queue of an interface constructed with
\* validation_chroms and holdout_chroms builds a queue for every dataset of
\* the interface, with holdout_chroms = skip_chroms
GetTrainQueue ==
    /\ AtRest
    /\ \E d \in DatasetIds, v \in ChromLists, h \in ChromLists :
          mcall' = [MIdle EXCEPT !.op = "train", !.pc = "call", !.dataset_id = d,
                                 !.holdout = skip_chroms(v, h),
                                 !.todo = DatasetIds \ {d}]
    /\ UNCHANGED <<dataset, intervals, files, ifaceVars, cacheVars, kf, tfVars>>

\* get_interval_queue is entered for a dataset of get_train_queue
BuildStreams ==
    /\ mcall.pc = "call"
    /\ mcall' = WithStreams(mcall)
    /\ UNCHANGED <<dataset, intervals, files, ifaceVars, cacheVars, kf, tfVars>>

\* lines 148-149 / 179-180: the side file is opened for writing when it is
\* missing or empty, and left alone otherwise
OpenDest(polarity, writing, next) ==
    LET f == dest_file(dataset[mcall.dataset_id], polarity)
    IN  IF NeedsWrite(files[f])
        THEN /\ files' = [files EXCEPT ![f] = OpenForWriting(files[f])]
             /\ created' = IF files[f].exists THEN created ELSE created \cup {f}
             /\ mcall' = [mcall EXCEPT !.pc = writing]
        ELSE /\ mcall' = [mcall EXCEPT !.pc = next]
             /\ UNCHANGED <<files, created>>

\* lines 150-165 / 181-194: the stream is drained into the side file and the
\* with block is left
Materialize(polarity, stream, next) ==
    LET f == IF polarity = "all" THEN mcall.dest_file
             ELSE dest_file(dataset[mcall.dataset_id], polarity)
        res == Drain(stream, mcall.holdout, polarity)
    IN  /\ files' = [files EXCEPT ![f] = Closed(files[f], res.lines)]
        /\ mcall' = IF res.err = "none"
                    THEN [mcall EXCEPT
                             !.pc = next,
                             !.wrote = @ \cup {polarity},
                             !.pos_only_stream = IF polarity = "pos" THEN NoStream ELSE @,
                             !.neg_only_stream = IF polarity = "neg" THEN NoStream ELSE @,
                             !.source_stream = IF polarity = "all" THEN NoStream ELSE @]
                    ELSE Leave(mcall, "raised", res.err)

OpenPos ==
    /\ mcall.pc = "pos"
    /\ OpenDest("pos", "posw", "posq")
    /\ UNCHANGED <<dataset, intervals, tmp_files, cacheVars, kf, tfVars>>

MaterializePos ==
    /\ mcall.pc = "posw"
    /\ Materialize("pos", mcall.pos_only_stream, "posq")
    /\ UNCHANGED <<dataset, intervals, ifaceVars, cacheVars, kf, tfVars>>

OpenNeg ==
    /\ mcall.pc = "neg"
    /\ OpenDest("neg", "negw", "negq")
    /\ UNCHANGED <<dataset, intervals, tmp_files, cacheVars, kf, tfVars>>

MaterializeNeg ==
    /\ mcall.pc = "negw"
    /\ Materialize("neg", mcall.neg_only_stream, "negq")
    /\ UNCHANGED <<dataset, intervals, ifaceVars, cacheVars, kf, tfVars>>

\* lines 168-176: the StreamingIntervalQueue over the positive side file
MakePosQueue ==
    /\ mcall.pc = "posq"
    /\ mcall' = [mcall EXCEPT
           !.pc = "neg",
           !.qfiles = @ \cup {dest_file(dataset[mcall.dataset_id], "pos")}]
    /\ UNCHANGED <<dataset, intervals, files, ifaceVars, cacheVars, kf, tfVars>>

\* lines 195-203: the StreamingIntervalQueue over the negative side file
MakeNegQueue ==
    /\ mcall.pc = "negq"
    /\ mcall' = [mcall EXCEPT
           !.pc = "shared",
           !.qfiles = @ \cup {dest_file(dataset[mcall.dataset_id], "neg")}]
    /\ UNCHANGED <<dataset, intervals, files, ifaceVars, cacheVars, kf, tfVars>>

\* lines 205-213: the shared queue is returned; get_train_queue goes on with
\* the next dataset and returns after the last
ReturnSharedQueue ==
    /\ mcall.pc = "shared"
    /\ IF mcall.todo = {}
       THEN mcall' = Leave(mcall, "returned", "none")
       ELSE \E d \in mcall.todo :
               mcall' = [mcall EXCEPT !.pc = "call", !.dataset_id = d,
                                      !.todo = @ \ {d}, !.heldout = FALSE,
                                      !.wrote = {},
                                      !.pos_only_stream = NoStream,
                                      !.neg_only_stream = NoStream]
    /\ UNCHANGED <<dataset, intervals, files, ifaceVars, cacheVars, kf, tfVars>>

----------------------------------------------------------------------------
(* The copy of an intervals file and the interface's temporary files       *)

\* get_interval_queue(dataset, dataset_id, selected_chroms, holdout_chroms)
\* is called with pos_sampling_rate=None. Lines 215-222: a name no file has is
\* found and added to self.tmp_files, the source stream is built and the copy
\* is opened.
GetIntervalQueueNoRate ==
    /\ AtRest
    /\ Len(tmp_files) < MaxCopies
    /\ \E d \in DatasetIds, sel \in ChromLists, h \in ChromLists :
          \E f \in FreshNames(dataset[d], files) :
             /\ mcall' = [MIdle EXCEPT
                    !.op = "copy", !.pc = "allw", !.dataset_id = d, !.dest_file = f,
                    !.source_stream = BedFileStream(intervals[d], sel, h, NoSampling)]
             /\ tmp_files' = Append(tmp_files, f)
             /\ files' = [files EXCEPT ![f] = OpenForWriting(@)]
             /\ created' = created \cup {f}
    /\ UNCHANGED <<dataset, intervals, cacheVars, kf, tfVars>>

\* lines 223-233: the source stream is drained into the copy
MaterializeCopy ==
    /\ mcall.pc = "allw"
    /\ Materialize("all", mcall.source_stream, "allq")
    /\ UNCHANGED <<dataset, intervals, ifaceVars, cacheVars, kf, tfVars>>

\* lines 235-244: the StreamingIntervalQueue over the copy is returned
MakeIntervalQueue ==
    /\ mcall.pc = "allq"
    /\ mcall' = Leave([mcall EXCEPT !.qfiles = @ \cup {mcall.dest_file}],
                      "returned", "none")
    /\ UNCHANGED <<dataset, intervals, files, ifaceVars, cacheVars, kf, tfVars>>

RemoveNothing(fs, paths) == fs

\* lines 313-315: every path of tmp_files that exists is removed
cleanup_tmp_files(fs, paths) ==
    [f \in DOMAIN fs |->
        IF (\E i \in 1..Len(paths) : paths[i] = f) /\ fs[f].exists THEN Absent ELSE fs[f]]

\* lines 317-318: the interface is discarded; the next interface of the log
\* directory is constructed with tmp_files = [] (line 72)
Del ==
    /\ AtRest
    /\ mcall.op \notin {"none", "del"}
    /\ files' = cleanup_tmp_files(files, tmp_files)
    /\ tmp_files' = <<>>
    /\ created' = {}
    /\ mcall' = [MIdle EXCEPT !.op = "del"]
    /\ UNCHANGED <<dataset, intervals, cacheVars, kf, tfVars>>

----------------------------------------------------------------------------
(* The validation queue and the training queue of one interface            *)

\* lines 220-233 run at once: the copy of the intervals file of dataset d
CopyOf(d, selected, holdout) ==
    [exists |-> TRUE, writer |-> FALSE,
     lines |-> Drain(BedFileStream(intervals[d], selected, holdout, NoSampling),
                     holdout, "all").lines]

\* lines 91-111 and 246-265, with validation_intervalspec=None: the interface
\* constructed with validation_chroms v and holdout_chroms h is asked for its
\* validation queue and makes, for one dataset after the other, an interval
\* queue over a copy of the intervals file (lines 214-244) with
\* selected_chroms=v and holdout_chroms=h
GetValidationQueue ==
    /\ mcall.op = "none"
    /\ \E v \in ChromLists, h \in ChromLists, d1 \in DatasetIds :
          LET d2 == CHOOSE d \in DatasetIds : d # d1
          IN  \E f1 \in FreshNames(dataset[d1], files) :
                 LET fs == [files EXCEPT ![f1] = CopyOf(d1, v, h)]
                 IN  \E f2 \in FreshNames(dataset[d2], fs) :
                        /\ files' = [fs EXCEPT ![f2] = CopyOf(d2, v, h)]
                        /\ tmp_files' = tmp_files \o <<f1, f2>>
                        /\ created' = created \cup {f1, f2}
                        /\ mcall' = [MIdle EXCEPT !.op = "valid", !.pc = "returned",
                                                  !.selected = v, !.holdout = h,
                                                  !.qfiles = {f1, f2}]
    /\ UNCHANGED <<dataset, intervals, cacheVars, kf, tfVars>>

\* lines 79-89: the same interface is asked for its training queue
GetTrainQueueOfInterface ==
    /\ mcall.op = "valid"
    /\ mcall.pc = "returned"
    /\ \E d \in DatasetIds :
          mcall' = [mcall EXCEPT !.op = "train", !.pc = "call", !.dataset_id = d,
                                 !.selected = None,
                                 !.holdout = skip_chroms(mcall.selected, mcall.holdout),
                                 !.todo = DatasetIds \ {d}]
    /\ UNCHANGED <<dataset, intervals, files, ifaceVars, cacheVars, kf, tfVars>>

\* the drain loop the call is in, if any: its file kind, its stream, and the
\* position the call has when the loop is left normally
Loops ==
    {[at |-> "posw", polarity |-> "pos", stream |-> mcall.pos_only_stream, next |-> "posq"],
     [at |-> "negw", polarity |-> "neg", stream |-> mcall.neg_only_stream, next |-> "negq"],
     [at |-> "allw", polarity |-> "all", stream |-> mcall.source_stream, next |-> "allq"]}

\* the file a drain loop writes
Dest(l) ==
    IF l.polarity = "all" THEN mcall.dest_file
    ELSE dest_file(dataset[mcall.dataset_id], l.polarity)

\* a read of a balanced drain loop fails with an input error after k entries
\* were read: the with block is left by the exception
ReadFails ==
    /\ \E l \in Loops :
          /\ mcall.pc = l.at
          /\ \E k \in 0..Len(l.stream.entries) :
                LET failing == [entries |-> SubSeq(l.stream.entries, 1, k), err |-> "IOError"]
                    res == Drain(failing, mcall.holdout, l.polarity)
                IN  /\ files' = [files EXCEPT ![Dest(l)] = Closed(@, res.lines)]
                    /\ mcall' = Leave(mcall, "raised", res.err)
    /\ UNCHANGED <<dataset, intervals, ifaceVars, cacheVars, kf, tfVars>>

----------------------------------------------------------------------------
(* train_tf_dragonn: K-fold cross-validation by held-out dataset            *)

FoldDatasetIds == {"A", "B", "C"}

\* lines 183-192: the example queue built for a dataset, for training or for
\* validation
ExampleQueue(dataset_id, kind) == [dataset_id |-> dataset_id, kind |-> kind]

FoldAllQueues(queues, valid_dataset_id) == queues

\* lines 222-224: the queues of every dataset but the one held out
train_example_queues_fold(queues, valid_dataset_id) ==
    {q \in queues : q.dataset_id # valid_dataset_id}

\* lines 225-226: the MultiDatasetExampleQueue merges the queues it is given
get_shared_examples_queue(queues) == queues

NoDataset == "none"

KFStart(kfold_cv, training, validation) ==
    [kfold_cv |-> kfold_cv, training_dataset |-> training,
     validation_dataset |-> validation, pc |-> "start",
     train_example_queues |-> {}, valid_example_queues |-> {},
     remaining |-> {}, valid_dataset_id |-> NoDataset,
     train_queue |-> {}, valid_queue |-> {}, folds |-> {}]

\* lines 181-192: K-fold is set up when asked for and more than one training
\* dataset exists
KF_Setup ==
    /\ kf.pc = "start"
    /\ kf.kfold_cv /\ Cardinality(kf.training_dataset) > 1
    /\ kf' = [kf EXCEPT
           !.pc = "loop",
           !.train_example_queues = {ExampleQueue(d, "train") : d \in kf.training_dataset},
           !.valid_example_queues = {ExampleQueue(d, "valid") : d \in kf.validation_dataset},
           !.remaining = kf.validation_dataset]
    /\ UNCHANGED <<cacheVars, matVars, tfVars>>

\* lines 242-268: one model on get_train_queue / get_validation_queue
KF_Plain ==
    /\ kf.pc = "start"
    /\ ~(kf.kfold_cv /\ Cardinality(kf.training_dataset) > 1)
    /\ kf' = [kf EXCEPT !.pc = "done"]
    /\ UNCHANGED <<cacheVars, matVars, tfVars>>

\* lines 194-220: the next held-out dataset, in the dict's order
KF_FoldBegin ==
    /\ kf.pc = "loop"
    /\ \E v \in kf.remaining :
          kf' = [kf EXCEPT !.pc = "fold", !.valid_dataset_id = v,
                           !.remaining = @ \ {v},
                           !.train_queue = {}, !.valid_queue = {}]
    /\ UNCHANGED <<cacheVars, matVars, tfVars>>

\* lines 221-226: the training stream of the fold
KF_FoldQueues ==
    /\ kf.pc = "fold"
    /\ kf' = [kf EXCEPT
           !.pc = "train",
           !.train_queue = get_shared_examples_queue(
               train_example_queues_fold(kf.train_example_queues, kf.valid_dataset_id)),
           !.valid_queue = {ExampleQueue(kf.valid_dataset_id, "valid")}]
    /\ UNCHANGED <<cacheVars, matVars, tfVars>>

\* lines 227-240: the fold's model is trained and its files are copied
KF_FoldTrain ==
    /\ kf.pc = "train"
    /\ kf' = [kf EXCEPT !.pc = "loop", !.folds = @ \cup {kf.valid_dataset_id}]
    /\ UNCHANGED <<cacheVars, matVars, tfVars>>

\* the loop of line 194 ends
KF_Finish ==
    /\ kf.pc = "loop"
    /\ kf.remaining = {}
    /\ kf' = [kf EXCEPT !.pc = "done", !.valid_dataset_id = NoDataset,
                        !.train_queue = {}, !.valid_queue = {}]
    /\ UNCHANGED <<cacheVars, matVars, tfVars>>

FoldNext ==
    \/ KF_Setup
    \/ KF_Plain
    \/ KF_FoldBegin
    \/ KF_FoldQueues
    \/ KF_FoldTrain
    \/ KF_Finish

----------------------------------------------------------------------------
(* Specifications                                                          *)

MatInit ==
    /\ dataset \in DatasetSpecs
    /\ intervals \in {i \in [DatasetIds -> LabelledFiles] : Len(i["B"]) = Len(ChromOrder)}
    /\ files = [f \in LogFiles |-> Absent]
    /\ mcall = MIdle
    /\ tmp_files = <<>>
    /\ created = {}

MatIdle ==
    /\ dataset = [d \in DatasetIds |-> "x.bed"]
    /\ intervals = [d \in DatasetIds |-> <<>>]
    /\ files = [f \in LogFiles |-> Absent]
    /\ mcall = MIdle
    /\ tmp_files = <<>>
    /\ created = {}

CacheInit ==
    /\ disk \in Disks
    /\ data_cache = EmptyCache
    /\ nobj = 0
    /\ cret = NoCall
    /\ thr = [t \in Threads |-> ThreadIdle]
    /\ nloads = [k \in {} |-> 0]

CacheIdle ==
    /\ disk = [d \in Dirs |-> NoManifest]
    /\ data_cache = EmptyCache
    /\ nobj = 0
    /\ cret = NoCall
    /\ thr = [t \in Threads |-> ThreadIdle]
    /\ nloads = [k \in {} |-> 0]

FoldInit ==
    \E k \in BOOLEAN, tr \in SUBSET FoldDatasetIds \ {{}}, va \in SUBSET FoldDatasetIds :
        kf = KFStart(k, tr, va)

FoldIdle == kf = KFStart(FALSE, {"A"}, {"A"})

TfIdle == ext = NoExtract /\ eq = NoQueueCall /\ xq = NoExampleQueueCall

Init == MatInit /\ CacheIdle /\ FoldIdle /\ TfIdle

Next ==
    \/ GetIntervalQueue
    \/ GetTrainQueue
    \/ BuildStreams
    \/ OpenPos
    \/ MaterializePos
    \/ MakePosQueue
    \/ OpenNeg
    \/ MaterializeNeg
    \/ MakeNegQueue
    \/ ReturnSharedQueue

\* the interface: queue constructions on one log directory
Spec == Init /\ [][Next]_vars

\* one interface after another on a log directory that may hold a copy left
\* by another program; balanced queues, queues over copies, and discards.
\* Dataset A has a positive and a negative interval, dataset B has one
\* interval without labels.
InitInterface ==
    /\ CacheIdle /\ FoldIdle /\ TfIdle
    /\ dataset = [d \in DatasetIds |-> IF d = "A" THEN "x.bed" ELSE "y.bed"]
    /\ intervals = [d \in DatasetIds |->
                       IF d = "A"
                       THEN Records([c \in Chroms |-> IF c = ChromOrder[1] THEN <<1>> ELSE <<0>>])
                       ELSE OnChroms(Records([c \in Chroms |-> NoLabels]), {ChromOrder[1]})]
    /\ \E foreign \in SUBSET {<<"x.bed", <<>>>>} :
          files = [f \in LogFiles |->
                      IF f \in foreign THEN [Absent EXCEPT !.exists = TRUE] ELSE Absent]
    /\ mcall = MIdle
    /\ tmp_files = <<>>
    /\ created = {}

NextInterface ==
    \/ GetIntervalQueue
    \/ OpenPos
    \/ MaterializePos
    \/ MakePosQueue
    \/ OpenNeg
    \/ MaterializeNeg
    \/ MakeNegQueue
    \/ ReturnSharedQueue
    \/ GetIntervalQueueNoRate
    \/ MaterializeCopy
    \/ MakeIntervalQueue
    \/ Del

SpecInterface == InitInterface /\ [][NextInterface]_vars

\* one interface on a log directory that is empty or holds the positive side
\* file an earlier interface wrote for dataset A without holdout chromosomes:
\* the validation queue is built and then the training queue, and a read of
\* the materialization may fail
InitRun ==
    /\ CacheIdle /\ FoldIdle /\ TfIdle
    /\ dataset \in DatasetSpecs
    /\ intervals \in [DatasetIds ->
          {Records([c \in Chroms |-> IF c = ChromOrder[1] THEN <<1, 0>> ELSE <<0, 1>>]),
           Records([c \in Chroms |-> IF c = ChromOrder[1] THEN <<-1, 1>> ELSE <<1, 0>>]),
           Records([c \in Chroms |-> <<1>>])}]
    /\ \E stale \in BOOLEAN :
          files = [f \in LogFiles |->
                      IF stale /\ f = dest_file(dataset["A"], "pos")
                      THEN [Absent EXCEPT
                               !.exists = TRUE,
                               !.lines = pos_only_stream(intervals["A"], None, Given({})).entries]
                      ELSE Absent]
    /\ mcall = MIdle
    /\ tmp_files = <<>>
    /\ created = {}

NextRun ==
    \/ GetValidationQueue
    \/ GetTrainQueueOfInterface
    \/ BuildStreams
    \/ OpenPos
    \/ MaterializePos
    \/ MakePosQueue
    \/ OpenNeg
    \/ MaterializeNeg
    \/ MakeNegQueue
    \/ ReturnSharedQueue
    \/ ReadFails

SpecRun == InitRun /\ [][NextRun]_vars


\* the array store used from one thread: a sequence of _load_directory calls
InitCache == CacheInit /\ MatIdle /\ FoldIdle /\ TfIdle

SpecCache == InitCache /\ [][Load]_vars

\* the array store used from several threads
SpecCacheThreads == InitCache /\ [][ThreadsNext]_vars

\* train_tf_dragonn on any datasets
InitFold == FoldInit /\ CacheIdle /\ MatIdle /\ TfIdle

SpecFold == InitFold /\ [][FoldNext]_vars

\* the reader op applied to batches of intervals
InitExtract ==
    /\ CacheIdle /\ MatIdle /\ FoldIdle
    /\ \E form \in Forms, batch \in Batches : ext = PendingExtract(form, batch)
    /\ eq = NoQueueCall
    /\ xq = NoExampleQueueCall

SpecExtract == InitExtract /\ [][Extract]_vars

\* the examples queue: one call of examples_queue on dicts of any keys
InitQueue ==
    /\ CacheIdle /\ MatIdle /\ FoldIdle
    /\ ext = NoExtract
    /\ \E intervals_dict \in KeySets(IntervalKeys), data_dict \in KeySets(DataKeys),
          labels_dict \in KeySets(LabelKeys) :
          eq = PendingQueueCall(intervals_dict, data_dict, labels_dict)
    /\ xq = NoExampleQueueCall

SpecQueue == InitQueue /\ [][ExamplesQueue]_vars

\* get_example_queue called once by an interface: on a dataset with any inputs
\* among the known data types, with the input names of the interface's model
\* or with input_names=None, and with an interval queue that is built or
\* whose construction raises
InitSources ==
    /\ CacheIdle /\ MatIdle /\ FoldIdle
    /\ ext = NoExtract /\ eq = NoQueueCall
    /\ \E types \in SUBSET DOMAIN data_type2extractor,
          user_options \in {<<>>, [op |-> "sum"]},
          names \in {[given |-> FALSE, names |-> <<>>]}
                      \cup {[given |-> TRUE, names |-> input_names(c)] : c \in DOMAIN model_inputs},
          queue_err \in {"none", "TypeError"} :
          xq = [NoExampleQueueCall EXCEPT
                   !.inputs = [k \in types |->
                                  IF data_type2extractor[k] = "bed"
                                  THEN [filepath |-> <<k, ".bed">>, options |-> user_options]
                                  ELSE <<k>>],
                   !.input_names = names,
                   !.interval_queue_err = queue_err]

SpecSources == InitSources /\ [][GetExampleQueue]_vars

----------------------------------------------------------------------------
(* Properties of balanced materialization                                  *)

\* the chromosomes of the records a side file holds
FileChroms(f) == {files[f].lines[i].chrom : i \in 1..Len(files[f].lines)}

\* C1: when a balanced materialization has returned its queue, no record of
\* the side files the queue reads has a chromosome in the holdout_chroms of
\* that call.
C1_SideFilesHoldoutFree ==
    mcall.pc = "returned"
        => \A f \in mcall.qfiles : FileChroms(f) \cap mcall.holdout.chroms = {}

\* C2: the queue returned by get_train_queue reads no record whose chromosome
\* is in validation_chroms or in holdout_chroms of the interface.
C2_TrainQueueSkipsChroms ==
    (mcall.op = "train" /\ mcall.pc = "returned")
        => \A f \in mcall.qfiles :
              \A c \in FileChroms(f) : c \notin mcall.holdout.chroms

\* C3 as claimed: a materialization that writes both side files from an
\* intervals file holding a positive or negative record of a held-out
\* chromosome raises, so it never gets as far as composing the shared queue.
C3_HeldOutRecordRaises ==
    ~(mcall.heldout /\ mcall.wrote = {"pos", "neg"} /\ mcall.pc = "shared")

\* C3 amended: the holdout error is never raised, and a side file written by
\* the running call holds no record of a held-out chromosome: such records are
\* dropped by the interval source before the drain loop tests them.
C3_HeldOutRecordsFiltered ==
    /\ mcall.err # "HoldoutValueError"
    /\ \A pol \in mcall.wrote :
          FileChroms(dest_file(dataset[mcall.dataset_id], pol)) \cap mcall.holdout.chroms = {}

\* an intervals file with a labelled held-out record was materialized into
\* fresh side files, the positive one not empty, and no error was raised
C3_Witness ==
    /\ mcall.heldout /\ mcall.pc = "shared" /\ mcall.wrote = {"pos", "neg"}
    /\ files[dest_file(dataset[mcall.dataset_id], "pos")].lines # <<>>

\* C4: a side file that exists and is not empty is never changed; only a
\* missing or empty side file is written.
C4_ExistingSideFileKept ==
    [][\A f \in SideFiles :
          (files[f].exists /\ files[f].lines # <<>>) => files'[f] = files[f]]_vars

\* a materialization went through both polarities and wrote neither file
C4_Witness ==
    /\ mcall.pc = "shared" /\ mcall.wrote = {}
    /\ \A f \in mcall.qfiles : files[f].lines # <<>>

----------------------------------------------------------------------------
(* Properties of the K-fold loop                                           *)

\* C5: the training stream of a fold holds no queue of the dataset held out
\* in that fold and holds the training queue of every other training dataset.
C5_FoldExcludesHeldOut ==
    kf.pc = "train"
        => /\ \A q \in kf.train_queue : q.dataset_id # kf.valid_dataset_id
           /\ \A d \in kf.training_dataset \ {kf.valid_dataset_id} :
                  ExampleQueue(d, "train") \in kf.train_queue

\* a fold trains with a training dataset held out and others merged
C5_Witness ==
    /\ kf.pc = "train"
    /\ kf.valid_dataset_id \in kf.training_dataset
    /\ Cardinality(kf.train_queue) >= 2

----------------------------------------------------------------------------
(* Properties of the array store                                           *)

\* C6: a use_cache=True load of a key that is already cached returns the cached
\* object itself and opens nothing; a use_cache=False load always reads the
\* manifest and opens the arrays anew, returns a mapping that is no cached
\* object, and leaves the cache as it was.
C6_CachedLoadIdentity ==
    [][ /\ (cret'.use_cache /\ cret'.key \in DOMAIN data_cache)
            => /\ cret'.err = "none"
               /\ cret'.obj = data_cache[cret'.key]
               /\ ~cret'.opened
               /\ nobj' = nobj
        /\ (~cret'.use_cache /\ cret'.dir # NoDir)
            => /\ data_cache' = data_cache
               /\ cret'.opened
               /\ cret'.err = "none"
                    => /\ cret'.obj.id = nobj + 1
                       /\ \A k \in DOMAIN data_cache' : data_cache'[k] # cret'.obj
      ]_vars

\* a cache hit was returned while mappings outside the cache exist as well
C6_Witness ==
    /\ cret.use_cache /\ cret.err = "none" /\ ~cret.opened
    /\ data_cache[cret.key] = cret.obj
    /\ nobj > Cardinality(DOMAIN data_cache)

\* C7: with several threads loading with use_cache=True, at most one load
\* (manifest read, arrays opened) is performed per key.
C7_SingleLoadPerKey == \A k \in DOMAIN nloads : nloads[k] <= 1

\* C8: an entry of the cache is never removed and never replaced by a later
\* load call.
C8_EntriesPermanent ==
    [][\A k \in DOMAIN data_cache :
          k \in DOMAIN data_cache' /\ data_cache'[k] = data_cache[k]]_vars

\* two entries are cached and a later load has failed
C8_Witness ==
    /\ Cardinality(DOMAIN data_cache) >= 2
    /\ cret.err \notin {"none", "nocall"}

\* C9 as claimed: every directory has at most one cache entry, whatever the
\* path strings it was loaded under.
C9_OneEntryPerDirectory ==
    \A k1, k2 \in DOMAIN data_cache :
        data_cache[k1].dir = data_cache[k2].dir => k1 = k2

\* C9 amended: every path string that denotes a cached directory in the same
\* form (relative or absolute) as the cached key, so that it differs from it
\* only in trailing or repeated separators, has that key.
C9_SeparatorsNormalised ==
    \A k \in DOMAIN data_cache :
        \A q \in PathStrings :
            (isdir(q) /\ Resolve(q) = data_cache[k].dir /\ IsAbs(q) = IsAbs(k))
                => base_dir_key(q) = k

\* a path with surplus separators hit an entry of the cache
C9_Witness ==
    /\ cret.use_cache /\ cret.err = "none" /\ ~cret.opened
    /\ cret.changed

\* C10: a load of an array directory with a chromosome whose stored shape
\* differs from the manifest fails (with the shape error when all arrays
\* could be opened) and leaves the cache unchanged; no such directory is cached.
C10_ShapeMismatchFails ==
    [][ (cret'.dir # NoDir /\ HasShapeMismatch(disk[cret'.dir]))
            => /\ cret'.err = (IF \E ch \in ArrChroms : disk[cret'.dir].arrays[ch] = Missing
                               THEN "OpenFailed" ELSE "ShapeMismatch")
               /\ cret'.obj = NoObj
               /\ data_cache' = data_cache
               /\ \A k \in DOMAIN data_cache' :
                      ~HasShapeMismatch(disk[data_cache'[k].dir])
      ]_vars

\* a cached load was refused for its shapes a second time, the cache holding
\* other entries
C10_Witness ==
    /\ cret.use_cache /\ cret.err = "ShapeMismatch"
    /\ data_cache # EmptyCache

\* C11: every load call with in_memory=True that addresses a v-plot directory
\* is refused with the v-plot error and stores nothing, whatever use_cache is
\* and whatever was loaded before.
C11_VplotInMemoryRejected ==
    [][ (cret'.dir # NoDir /\ cret'.in_memory /\ disk[cret'.dir].type = "vplot_bcolz")
            => /\ cret'.err = "VplotInMemory"
               /\ cret'.obj = NoObj
               /\ data_cache' = data_cache
      ]_vars

----------------------------------------------------------------------------
(* Properties of the reader op                                             *)

\* the batch is well formed: not empty, every interval non-empty and inside
\* its chromosome's array, all of one length
WellFormed(batch) ==
    /\ batch # <<>>
    /\ \A i \in 1..Len(batch) :
          /\ batch[i].start < batch[i].end
          /\ batch[i].end <= Len(data[batch[i].chrom])
          /\ Lens(batch)[i] = Lens(batch)[1]

\* C12: a batch holding two intervals of different lengths makes the
\* extractor raise the inconsistent-length error, and a returned tensor means
\* that all intervals of the batch had the same length.
C12_InconsistentLengthsRaise ==
    ext.called =>
        LET differ == \E i, j \in 1..Len(ext.batch) : Lens(ext.batch)[i] # Lens(ext.batch)[j]
        IN  /\ differ => ext.err = "InconsistentLengths"
            /\ ext.err = "none" => ~differ

\* C13: for a well-formed batch of N intervals, in either form, the extractor
\* returns N rows, row i being the slice [start_i:end_i] of the array of
\* interval i's chromosome.
C13_RowsInInputOrder ==
    (ext.called /\ WellFormed(ext.batch)) =>
        /\ ext.err = "none"
        /\ Len(ext.output) = Len(ext.batch)
        /\ \A i \in 1..Len(ext.batch) :
              ext.output[i] = accessor_func(ext.batch[i].chrom, ext.batch[i].start,
                                            ext.batch[i].end)

----------------------------------------------------------------------------
(* Properties of the materialization steps and of the temporary files      *)

\* C14: when an interval queue is created on a file of the log directory, the
\* writer of that file has left its with block: every line is written and the
\* file is closed. A writer holds a file open only inside a drain loop.
C14_WriterClosedBeforeQueue ==
    [][/\ \A f \in mcall'.qfiles \ mcall.qfiles : ~files[f].writer /\ ~files'[f].writer
       /\ \A f \in LogFiles : files'[f].writer => mcall'.pc \in {"posw", "negw", "allw"}]_vars

C14_Witness ==
    /\ mcall.pc = "neg"
    /\ "pos" \in mcall.wrote
    /\ dest_file(dataset[mcall.dataset_id], "pos") \in mcall.qfiles
    /\ files[dest_file(dataset[mcall.dataset_id], "pos")].lines # <<>>

\* C15: side files are kept per dataset: when the two interval queues of a
\* dataset are built, the pos and neg side files they read hold only records
\* of that dataset's intervals file, also when another dataset of the run has
\* an intervals file of the same base name.
C15_SideFilesPerDataset ==
    mcall.pc = "shared"
        => \A pol \in {"pos", "neg"} :
              LET lines == files[dest_file(dataset[mcall.dataset_id], pol)].lines
                  own == intervals[mcall.dataset_id]
              IN  \A i \in 1..Len(lines) : \E j \in 1..Len(own) : lines[i] = own[j]

\* C16 as stated: when the interface is discarded, every file of the log
\* directory it created, the pos and neg side files included, is deleted, and
\* every other file is left as it was.
C16_CleanupDeletesCreated ==
    [][Del => \A f \in LogFiles :
                 files'[f] = IF f \in created THEN Absent ELSE files[f]]_vars

\* C16, amended: when the interface is discarded, the copies it made on the
\* pos_sampling_rate=None path, which are the files of tmp_files, are deleted;
\* every other file, the pos and neg side files it created included, is left
\* as it was.
C16_CleanupDeletesCopies ==
    [][Del => \A f \in LogFiles :
                 files'[f] = IF f \in created \cap TmpNames THEN Absent ELSE files[f]]_vars

C16_Witness ==
    /\ mcall.op = "del"
    /\ files[dest_file("x.bed", "pos")].lines # <<>>
    /\ files[<<"x.bed", <<>>>>].exists
    /\ \A f \in TmpNames \ {<<"x.bed", <<>>>>} : ~files[f].exists

\* no statement of the loop body raises on the entries of the stream
BodyClean(l) ==
    \/ l.polarity = "all"
    \/ l.stream.entries = <<>>
    \/ /\ mcall.holdout.given
       /\ \A i \in 1..Len(l.stream.entries) :
             l.stream.entries[i].chrom \notin mcall.holdout.chroms

\* C17: a drain loop whose reads end with the end of the stream is left
\* normally and the call goes on to build the queue on the file; when a read
\* raises another error, the call is left with that error and returns no
\* queue. Either way the loop is left in the step that runs it.
C17_OnlyEndOfStreamEndsDrain ==
    [][\A l \in Loops :
          (mcall.pc = l.at /\ BodyClean(l))
             => IF l.stream.err = "none"
                THEN mcall'.pc = l.next /\ mcall'.err = "none"
                ELSE /\ mcall'.pc = "raised"
                     /\ mcall'.err = l.stream.err
                     /\ mcall'.qfiles = {}]_vars

C17_Witness ==
    /\ mcall.pc = "raised"
    /\ mcall.err = "IndexError"
    /\ files[dest_file("y.bed", "pos")].exists

\* C18: when a drain loop is left normally, the file it wrote holds one line
\* for every entry its stream delivered, in the order of delivery, for the
\* pos file, the neg file and the copy, with and without labels.
C18_FileHoldsEveryEntry ==
    [][\A l \in Loops :
          (mcall.pc = l.at /\ mcall'.pc = l.next)
             => files'[Dest(l)].lines =
                    [i \in 1..Len(l.stream.entries) |-> Line(l.stream.entries[i])]]_vars

C18_Witness ==
    /\ mcall.pc = "allq"
    /\ mcall.dataset_id = "B"
    /\ files[mcall.dest_file].lines = intervals["B"]
    /\ \E i \in 1..Len(intervals["B"]) : intervals["B"][i].labels = NoLabels

----------------------------------------------------------------------------
(* Properties of the examples queue                                        *)

\* C19: the examples queue has a cancel path: once examples_queue has been
\* called, its queue runner is registered with a cancel operation that closes
\* the queue with cancel_pending_enqueues, by which every enqueue blocked on
\* the full queue ends with a cancellation.
C19_CancelPathUnblocks ==
    eq.called
        => /\ eq.queue.built
           /\ eq.queue_runner.registered
           /\ eq.queue_runner.cancel_op = "close(cancel_pending_enqueues=True)"

\* C20: the queue runner has two shutdown paths that differ: once
\* examples_queue has been called, the close operation of its queue runner
\* closes the queue and keeps what is queued and pending, and the cancel
\* operation is another one, which drops the pending enqueues.
C20_TwoShutdownPaths ==
    eq.called
        => /\ eq.queue_runner.registered
           /\ eq.queue_runner.close_op = "close"
           /\ eq.queue_runner.cancel_op # eq.queue_runner.close_op

----------------------------------------------------------------------------
(* Properties of balanced materialization without holdout chromosomes      *)

\* C28: a balanced drain loop entered with holdout_chroms=None is left
\* normally when its reads end with the end of the stream, and the side file
\* then holds every entry of the stream.
C28_HoldoutOptional ==
    [][\A l \in Loops :
          (mcall.pc = l.at /\ l.polarity # "all" /\ ~mcall.holdout.given
              /\ l.stream.err = "none")
             => /\ mcall'.pc = l.next
                /\ files'[Dest(l)].lines = l.stream.entries]_vars

\* C30: once examples_queue has been called, the queue is built with one
\* component for every key of the three dicts, named intervals/k, data/k and
\* labels/k, each holding the tensor of its key.
C30_OneComponentPerTensor ==
    eq.called
        => /\ eq.queue.built
           /\ Len(eq.queue.names) =
                 Cardinality(eq.intervals) + Cardinality(eq.data) + Cardinality(eq.labels)
           /\ \A k \in eq.intervals : \E i \in 1..Len(eq.queue.names) :
                 eq.queue.names[i] = <<"intervals/", k>> /\ eq.queue.tensors[i] = <<"intervals", k>>
           /\ \A k \in eq.data : \E i \in 1..Len(eq.queue.names) :
                 eq.queue.names[i] = <<"data/", k>> /\ eq.queue.tensors[i] = <<"data", k>>
           /\ \A k \in eq.labels : \E i \in 1..Len(eq.queue.names) :
                 eq.queue.names[i] = <<"labels/", k>> /\ eq.queue.tensors[i] = <<"labels", k>>

----------------------------------------------------------------------------
(* Properties of the queues and side files of one interface                *)

\* C21: when an interface has returned its validation queue and its training
\* queue, no interval (chromosome, start, end) is in a file read by the
\* validation queue and also in a file read by the training queue.
C21_TrainValidationDisjoint ==
    (mcall.op = "train" /\ mcall.pc = "returned")
        => \A f \in mcall.qfiles \cap TmpNames, g \in mcall.qfiles \cap SideFiles :
              \A i \in 1..Len(files[f].lines), j \in 1..Len(files[g].lines) :
                 \/ files[f].lines[i].chrom # files[g].lines[j].chrom
                 \/ files[f].lines[i].start # files[g].lines[j].start
                 \/ files[f].lines[i].end # files[g].lines[j].end

C29_NoPartialSideFile ==
    [][\A l \in Loops :
          (mcall.pc = l.at /\ l.polarity # "all" /\ mcall'.pc = "raised")
             => files'[Dest(l)].lines \in {<<>>, l.stream.entries}]_vars

----------------------------------------------------------------------------
(* Properties of get_example_queue                                         *)

\* C26: once get_example_queue has been called with input names, it has
\* raised and built no example queue when one of the names is not an input of
\* the dataset; when none is missing and the interval queue was built, the
\* example queue is built and its data sources are those of exactly the
\* dataset inputs named, each made from its input's specs.
C26_RequiredSources ==
    (xq.called /\ xq.input_names.given)
        => LET named == {xq.input_names.names[i] : i \in 1..Len(xq.input_names.names)}
           IN  IF named \subseteq DOMAIN xq.inputs
               THEN /\ xq.built <=> xq.interval_queue_err = "none"
                    /\ xq.built =>
                          /\ xq.err = "none"
                          /\ DOMAIN xq.data_sources = named
                          /\ \A k \in named :
                                /\ xq.data_sources[k].extractor_type = data_type2extractor[k]
                                /\ xq.data_sources[k].data_path =
                                      IF data_type2extractor[k] = "bed"
                                      THEN xq.inputs[k].filepath ELSE xq.inputs[k]
               ELSE ~xq.built /\ xq.err # "none"

\* an example queue built for a model of two inputs on a dataset that has
\* more inputs than the model names
C26_Witness ==
    /\ xq.called /\ xq.built /\ xq.input_names.given
    /\ Len(xq.input_names.names) = 2
    /\ "tss_counts" \in DOMAIN xq.inputs
    /\ DOMAIN xq.data_sources = {"genome_data_dir", "dnase_data_dir"}

====
